---- MODULE Spec2Model ----
(***************************************************************************)
(* A model of spifpy/input/sea.py: the directory-driven buffer scanner     *)
(* (SEAFile._raw_buffers), the decoder on top of it (SEAFile.iter_buffers),*)
(* the dataset decoder (SEAFile._read_dataset) and the Buffer container.   *)
(*                                                                         *)
(* The file is a sequence of bytes (0..255).  Directory entries are        *)
(* decoded from the bytes as struct '<HHHHHBBBBH' does, so a read at an    *)
(* unaligned offset (byte-by-byte resynchronisation) yields whatever the   *)
(* bytes there spell.                                                      *)
(***************************************************************************)
EXTENDS Integers, Sequences, FiniteSets, TLC

(***************************************************************************)
(* Program constants (sea.py:38-47, 164-165, 999).                         *)
(***************************************************************************)
TIME_TAG == 0
NEXT_TAG == 999
RESERVED_TAG_LOW_END == 65000
RESERVED_TAG_HIGH_END == 65529
FILENAME_TAG == 65530
FILEDATA_TAG == 65531
COMMAND_TAG == 65532
ERROR_TAG == 65533
SAME_TAG == 65534
LAST_TAG == 65535
SIZE == 16
TIME_DATASET_BYTES_PER_SAMPLE == 18
TIME_DATASET_ADDRESS == 43605

(***************************************************************************)
(* Bounds of the model.                                                    *)
(***************************************************************************)
\* the largest number of NEXT-terminated buffers of a generated stream
MaxBuffers == 2
\* the largest number of garbage bytes put before the first record
MaxGarbage == 1
\* the observer keeps at most this many yielded pairs / Buffers
MaxEmit == 5
\* the largest number of samples of an entry handed to _read_dataset
MaxSamples == 2
\* the observer keeps at most this many values of cursor and dir_base
MaxWalk == 30

\* None of Python, where it stands for a missing name or record
None == "None"

\* an attribute that is None or holds a value: <<>> or <<value>>
Nothing == <<>>
Some(v) == <<v>>

Min(a, b) == IF a < b THEN a ELSE b
Max(a, b) == IF a > b THEN a ELSE b

(***************************************************************************)
(* Python helpers: slicing and dicts.                                      *)
(***************************************************************************)
\* s[a:b] of Python, 0 <= a, 0 <= b (indices are clipped to the length)
Slice(s, a, b) == SubSeq(s, Min(a, Len(s)) + 1, Min(b, Len(s)))

\* s[a:] of Python, 0 <= a
SliceFrom(s, a) == SubSeq(s, Min(a, Len(s)) + 1, Len(s))

EmptyDict == [k \in {} |-> 0]

\* d[k] = v
DictSet(d, k, v) == [x \in (DOMAIN d) \cup {k} |-> IF x = k THEN v ELSE d[x]]

(***************************************************************************)
(* struct: little-endian unsigned and signed integers read from bytes.     *)
(* b is a byte sequence, o a 0-based offset.                               *)
(***************************************************************************)
U8(b, o) == b[o + 1]

U16(b, o) == b[o + 1] + 256 * b[o + 2]

S8(b, o) == IF b[o + 1] >= 128 THEN b[o + 1] - 256 ELSE b[o + 1]

S16(b, o) == IF U16(b, o) >= 32768 THEN U16(b, o) - 65536 ELSE U16(b, o)

\* struct.unpack_from(fmt, b, o) raises struct.error when the bytes are not there
UnpackFits(b, o, size) == o + size <= Len(b)

(***************************************************************************)
(* DirectoryEntry (sea.py:997-1030).                                       *)
(***************************************************************************)
EntryAttrs ==
    {"tag_number", "data_offset", "number_of_bytes", "samples",
     "bytes_per_sample", "typ", "parameter1", "parameter2", "parameter3",
     "address"}

\* DirectoryEntry.struct.unpack_from(file_contents, start): '<HHHHHBBBBH'
UnpackEntry(b, start) ==
    [tag_number       |-> U16(b, start),
     data_offset      |-> U16(b, start + 2),
     number_of_bytes  |-> U16(b, start + 4),
     samples          |-> U16(b, start + 6),
     bytes_per_sample |-> U16(b, start + 8),
     typ              |-> U8(b, start + 10),
     parameter1       |-> U8(b, start + 11),
     parameter2       |-> U8(b, start + 12),
     parameter3       |-> U8(b, start + 13),
     address          |-> U16(b, start + 14)]

\* DirectoryEntry.new_from_raw_data: TRUE when the entry can be read,
\* FALSE when struct.error is raised (fewer than 16 bytes at start)
CanReadEntry(b, start) == UnpackFits(b, start, SIZE)

(***************************************************************************)
(* Input streams.  A stream is built the way the instrument lays a file    *)
(* out: each buffer is a directory (a time entry, data entries, and a NEXT *)
(* or LAST entry) followed by the payloads the entries point to.           *)
(***************************************************************************)
Enc16(n) == <<n % 256, n \div 256>>

\* the inverse of UnpackEntry: struct.pack('<HHHHHBBBBH', ...)
EncodeEntry(e) ==
    Enc16(e.tag_number) \o Enc16(e.data_offset) \o Enc16(e.number_of_bytes)
        \o Enc16(e.samples) \o Enc16(e.bytes_per_sample)
        \o <<e.typ, e.parameter1, e.parameter2, e.parameter3>>
        \o Enc16(e.address)

Entry(tag, off, nbytes, samples, bps, typ, address) ==
    [tag_number |-> tag, data_offset |-> off, number_of_bytes |-> nbytes,
     samples |-> samples, bytes_per_sample |-> bps, typ |-> typ,
     parameter1 |-> 0, parameter2 |-> 0, parameter3 |-> 0,
     address |-> address]

\* the time entry that opens a buffer (the M300 layout: two samples of 18 bytes)
TimeEntry(off) ==
    Entry(TIME_TAG, off, 2 * TIME_DATASET_BYTES_PER_SAMPLE, 2,
          TIME_DATASET_BYTES_PER_SAMPLE, 0, TIME_DATASET_ADDRESS)

\* an 18-byte time record: 2019-03-01 10:00:00, 5000 ticks of 10000
TimeRecordBytes ==
    Enc16(2019) \o Enc16(3) \o Enc16(1) \o Enc16(10) \o Enc16(0) \o Enc16(0)
        \o Enc16(5000) \o Enc16(10000) \o Enc16(0)

TimePayload == TimeRecordBytes \o TimeRecordBytes

\* the acquisition type the generated data entry with a given tag carries:
\* tag 7 is a signed 16-bit sample (type 1), any other an unsigned one (type 9)
TypOfTag(tag) == IF tag = 7 THEN 1 ELSE 9

\* one sample of two bytes per data entry
DataEntry(tag, off) == Entry(tag, off, 2, 1, 2, TypOfTag(tag), 0)

DataPayload(tag) == <<254, 255>>

RECURSIVE DataEntries(_, _, _)
DataEntries(tags, i, off) ==
    IF i > Len(tags) THEN <<>>
    ELSE EncodeEntry(DataEntry(tags[i], off)) \o DataEntries(tags, i + 1, off + 2)

RECURSIVE DataPayloads(_, _)
DataPayloads(tags, i) ==
    IF i > Len(tags) THEN <<>>
    ELSE DataPayload(tags[i]) \o DataPayloads(tags, i + 1)

\* the bytes of the directory of a buffer with the given data tags
DirectorySize(tags) == SIZE * (Len(tags) + 2)

\* the bytes of a whole buffer with the given data tags
BufferSize(tags) == DirectorySize(tags) + Len(TimePayload) + 2 * Len(tags)

\* a buffer: directory [time, data..., terminator], then the payloads
BufferBytes(tags, term_tag, term_offset) ==
    EncodeEntry(TimeEntry(DirectorySize(tags)))
        \o DataEntries(tags, 1, DirectorySize(tags) + Len(TimePayload))
        \o EncodeEntry(Entry(term_tag, term_offset, 0, 0, 0, 0, 0))
        \o TimePayload \o DataPayloads(tags, 1)

\* what the NEXT entry of a generated buffer declares as data_offset:
\* the buffer's size, or a value that is wrong
NextOffset(variant, tags) ==
    CASE variant = "exact" -> BufferSize(tags)
      [] variant = "zero"  -> 0
      [] variant = "back"  -> SIZE

\* The description of a generated stream:
\*   garbage : the number of bytes (255) before the first record
\*   kinds   : the data tags of each NEXT-terminated buffer
\*   variant : what the first NEXT entry declares as data_offset
\*   last    : the data tags of the final (LAST-terminated) buffer
\*   tail    : the number of bytes of the file after the LAST entry; a
\*             negative tail cuts the file before the end of the LAST entry
RECURSIVE NextBuffers(_, _, _)
NextBuffers(kinds, i, variant) ==
    IF i > Len(kinds) THEN <<>>
    ELSE BufferBytes(kinds[i], NEXT_TAG,
                     NextOffset(IF i = 1 THEN variant ELSE "exact", kinds[i]))
             \o NextBuffers(kinds, i + 1, variant)

Padding(n) == [i \in 1..n |-> 0]

\* offset of the LAST entry of the stream a shape describes
LastEntryOffset(shape) ==
    shape.garbage + Len(NextBuffers(shape.kinds, 1, shape.variant))
        + DirectorySize(shape.last) - SIZE

\* a stream whose final buffer is the LAST entry alone, with tail bytes
\* after it
BareLastBytes(shape) ==
    [i \in 1..shape.garbage |-> 255]
        \o NextBuffers(shape.kinds, 1, shape.variant)
        \o EncodeEntry(Entry(LAST_TAG, 0, 0, 0, 0, 0, 0))
        \o Padding(shape.tail)

StreamBytes(shape) ==
    LET full == [i \in 1..shape.garbage |-> 255]
                    \o NextBuffers(shape.kinds, 1, shape.variant)
                    \o BufferBytes(shape.last, LAST_TAG, 0)
                    \o Padding(SIZE)
    IN  SubSeq(full, 1, LastEntryOffset(shape) + SIZE + shape.tail)

(***************************************************************************)
(* struct format strings.  A format is a sequence of groups <<count, code>>*)
(* ('H' * 20 + 'bb' is << <<20, "H">>, <<2, "b">> >>); '<' means no        *)
(* padding between the elements.                                           *)
(***************************************************************************)
CodeSize(code) ==
    CASE code \in {"b", "B"} -> 1
      [] code \in {"h", "H"} -> 2
      [] code \in {"i", "I"} -> 4
      [] code = "Q"          -> 8

RECURSIVE CalcSizeFrom(_, _)
CalcSizeFrom(fmt, g) ==
    IF g > Len(fmt) THEN 0
    ELSE fmt[g][1] * CodeSize(fmt[g][2]) + CalcSizeFrom(fmt, g + 1)

\* struct.calcsize('<' + fmt)
CalcSize(fmt) == CalcSizeFrom(fmt, 1)

RECURSIVE CountFrom(_, _)
CountFrom(fmt, g) ==
    IF g > Len(fmt) THEN 0 ELSE fmt[g][1] + CountFrom(fmt, g + 1)

\* the number of values struct.unpack returns for fmt
ElemCount(fmt) == CountFrom(fmt, 1)

\* an unsigned little-endian integer of n bytes
RECURSIVE ULE(_, _, _)
ULE(b, o, n) == IF n = 0 THEN 0 ELSE b[o + 1] + 256 * ULE(b, o + 1, n - 1)

\* one value of the given code read at offset o
UnpackElem(code, b, o) ==
    CASE code = "b" -> S8(b, o)
      [] code = "B" -> U8(b, o)
      [] code = "h" -> S16(b, o)
      [] code = "H" -> U16(b, o)
      [] OTHER      -> ULE(b, o, CodeSize(code))

\* the code and the offset of element j (0-based) of one repetition of fmt
RECURSIVE ElemPlace(_, _, _, _)
ElemPlace(fmt, g, j, off) ==
    IF j < fmt[g][1] THEN <<fmt[g][2], off + j * CodeSize(fmt[g][2])>>
    ELSE ElemPlace(fmt, g + 1, j - fmt[g][1], off + fmt[g][1] * CodeSize(fmt[g][2]))

\* struct.unpack_from('<' + fmt * times, b, o), when the bytes are there
UnpackValues(fmt, times, b, o) ==
    [i \in 1..(times * ElemCount(fmt)) |->
        LET s     == (i - 1) \div ElemCount(fmt)
            place == ElemPlace(fmt, 1, (i - 1) % ElemCount(fmt), 0)
        IN  UnpackElem(place[1], b, o + s * CalcSize(fmt) + place[2])]

(***************************************************************************)
(* SEATime (sea.py:59-65) and string data (sea.py:570-589).                *)
(***************************************************************************)
\* SEATime._make(SEA_TIME_STRUCT.unpack_from(raw_buffer, offset)): nine 'H'
UnpackSEATime(b, o) ==
    [year |-> U16(b, o), month |-> U16(b, o + 2), day |-> U16(b, o + 4),
     hour |-> U16(b, o + 6), minute |-> U16(b, o + 8), second |-> U16(b, o + 10),
     fraction_of_second |-> U16(b, o + 12), max_sys_freq |-> U16(b, o + 14),
     buffer_life_span |-> U16(b, o + 16)]

\* the nine fields of a time record as SEA_TIME_STRUCT packs them
EncodeSEATime(t) ==
    Enc16(t.year) \o Enc16(t.month) \o Enc16(t.day) \o Enc16(t.hour)
        \o Enc16(t.minute) \o Enc16(t.second) \o Enc16(t.fraction_of_second)
        \o Enc16(t.max_sys_freq) \o Enc16(t.buffer_life_span)

\* floor(1000000 * r / m) for 0 <= r < m, evaluated in two steps of 1000 so
\* that no intermediate value leaves 32 bits
MicrosecondOfTicks(r, m) ==
    LET a == 1000 * r
    IN  1000 * (a \div m) + (1000 * (a % m)) \div m

\* 1000000 * fraction_of_second / max_sys_freq does not fit the C int the
\* datetime constructor takes (2^31 - 1 = 2147 * 1000000 + 483647)
MicrosecondOverflows(t) ==
    LET q == t.fraction_of_second \div t.max_sys_freq
        r == t.fraction_of_second % t.max_sys_freq
    IN  q > 2147 \/ (q = 2147 /\ MicrosecondOfTicks(r, t.max_sys_freq) > 483647)

\* a conversion that keeps milliseconds only
MillisecondOnly(t) ==
    1000 * ((1000 * t.fraction_of_second) \div t.max_sys_freq)

\* sea.py:122: int(1000000 * fraction_of_second / max_sys_freq), for
\* max_sys_freq > 0 and a value that fits 32 bits. The quotient of the float
\* division is within 2^-52 of the exact one, which is either an integer or
\* at least 1 / 65535 away from one, so int() gives the exact floor.
Microsecond(t) ==
    1000000 * (t.fraction_of_second \div t.max_sys_freq)
        + MicrosecondOfTicks(t.fraction_of_second % t.max_sys_freq, t.max_sys_freq)

IsLeap(year) == year % 4 = 0 /\ (year % 100 # 0 \/ year % 400 = 0)

DaysInMonth(year, month) ==
    CASE month \in {4, 6, 9, 11} -> 30
      [] month = 2 -> IF IsLeap(year) THEN 29 ELSE 28
      [] OTHER -> 31

\* the arguments datetime.datetime(...) accepts
ValidDatetime(year, month, day, hour, minute, second, microsecond) ==
    /\ year \in 1..9999 /\ month \in 1..12
    /\ day >= 1 /\ day <= DaysInMonth(year, month)
    /\ hour \in 0..23 /\ minute \in 0..59 /\ second \in 0..59
    /\ microsecond >= 0 /\ microsecond <= 999999

\* datetime_from_seatime (sea.py:117-133): the datetime, or the exception
DatetimeFromSeatime(t) ==
    IF t.max_sys_freq = 0 THEN [status |-> "ZeroDivisionError"]
    ELSE IF MicrosecondOverflows(t) THEN [status |-> "OverflowError"]
    ELSE IF ValidDatetime(t.year, t.month, t.day, t.hour, t.minute, t.second,
                          Microsecond(t))
    THEN [status |-> "ok",
          datetime |-> [year |-> t.year, month |-> t.month, day |-> t.day,
                        hour |-> t.hour, minute |-> t.minute,
                        second |-> t.second, microsecond |-> Microsecond(t)]]
    ELSE [status |-> "ValueError"]

\* datetime_from_raw_seatime (sea.py:103-114)
DatetimeFromRawSeatime(sea_file_data, offset) ==
    IF UnpackFits(sea_file_data, offset, TIME_DATASET_BYTES_PER_SAMPLE)
    THEN DatetimeFromSeatime(UnpackSEATime(sea_file_data, offset))
    ELSE [status |-> "struct.error"]

\* the size of the format '<{bytes_per_sample}s' * samples
StringDataSize(dir_entry) == dir_entry.bytes_per_sample * dir_entry.samples

\* SEAFile._unpack_string_data: samples strings of bytes_per_sample bytes
UnpackStringData(raw_buffer, dir_entry) ==
    [i \in 1..dir_entry.samples |->
        Slice(raw_buffer,
              dir_entry.data_offset + (i - 1) * dir_entry.bytes_per_sample,
              dir_entry.data_offset + i * dir_entry.bytes_per_sample)]

(***************************************************************************)
(* SEAFile._read_dataset (sea.py:725-878).                                 *)
(***************************************************************************)
KnownTypes == {1, 2, 5, 6, 7, 8, 9, 10, 11, 35, 66, 78, 85, 255}

\* math.ceil(bytes_per_sample / 16)
CeilDiv16(n) == (n + 15) \div 16

\* sample_string of a known acquisition type (sea.py:745-835)
SampleString(dir_entry) ==
    CASE dir_entry.typ = 1   -> << <<1, "h">> >>
      [] dir_entry.typ = 2   -> << <<20, "H">>, <<2, "b">> >>
      [] dir_entry.typ = 5   -> << <<1024, "I">> >>
      [] dir_entry.typ = 6   -> << <<2, "H">> >>
      [] dir_entry.typ = 7   -> << <<1, "I">> >>
      [] dir_entry.typ = 8   -> << <<1, "I">> >>
      [] dir_entry.typ = 9   -> << <<1, "H">> >>
      [] dir_entry.typ = 10  -> << <<1, "H">> >>
      [] dir_entry.typ = 11  -> << <<8, "H">> >>
      [] dir_entry.typ = 35  -> << <<1, "h">> >>
      [] dir_entry.typ = 66  -> << <<2 * CeilDiv16(dir_entry.bytes_per_sample), "Q">> >>
      [] dir_entry.typ = 78  -> << <<4096, "B">>, <<1, "H">> >>
      [] dir_entry.typ = 85  -> << <<dir_entry.bytes_per_sample, "B">> >>
      [] dir_entry.typ = 255 -> << <<dir_entry.bytes_per_sample, "B">> >>

\* expected_size (sea.py:851)
ExpectedSize(dir_entry) == dir_entry.samples * dir_entry.bytes_per_sample

\* the test of sea.py:862: the declared payload ends past the buffer
PayloadOverrun(dir_entry, raw_buffer) ==
    dir_entry.data_offset + ExpectedSize(dir_entry) > Len(raw_buffer)

\* SEAFile._read_dataset_raw: unpack, or re-raise struct.error
ReadDatasetRaw(dir_entry, raw_buffer, fmt, times, warned) ==
    IF UnpackFits(raw_buffer, dir_entry.data_offset, times * CalcSize(fmt))
    THEN [status |-> "ok", warnings |-> warned,
          dataset |-> UnpackValues(fmt, times, raw_buffer, dir_entry.data_offset)]
    ELSE [status |-> "struct.error", warnings |-> warned, dataset |-> <<>>]

\* SEAFile._read_dataset: the outcome, the warnings issued and the dataset
ReadDataset(dir_entry, raw_buffer) ==
    IF dir_entry.typ \notin KnownTypes
    THEN ReadDatasetRaw(dir_entry, raw_buffer,
                        << <<dir_entry.number_of_bytes, "B">> >>, 1,
                        <<"unknown acquisition type">>)
    ELSE LET slices == IF dir_entry.typ = 66 /\ dir_entry.bytes_per_sample % 16 # 0
                       THEN <<"not a multiple of 128 bits">> ELSE <<>>
         IN  IF dir_entry.number_of_bytes < ExpectedSize(dir_entry)
             THEN ReadDatasetRaw(dir_entry, raw_buffer, SampleString(dir_entry),
                                 dir_entry.samples,
                                 Append(slices, "number of bytes less than expected"))
             ELSE IF PayloadOverrun(dir_entry, raw_buffer)
             THEN [status |-> "ValueError",
                   warnings |-> Append(slices, "end of dataset beyond end of buffer"),
                   dataset |-> <<>>]
             ELSE ReadDatasetRaw(dir_entry, raw_buffer, SampleString(dir_entry),
                                 dir_entry.samples, slices)

(***************************************************************************)
(* Buffer (sea.py:903-984).                                                *)
(***************************************************************************)
\* Buffer.__init__
NewBuffer ==
    [dir_entries_by_tag_number |-> EmptyDict, dir_entries_by_typ |-> EmptyDict,
     datasets_by_tag_number |-> EmptyDict, datasets_by_typ |-> EmptyDict]

\* d[k].append(v), creating the list on KeyError
DictAppend(d, k, v) ==
    DictSet(d, k, IF k \in DOMAIN d THEN Append(d[k], v) ELSE <<v>>)

\* an add_dataset that files every entry under its acquisition type as well
AddDatasetAllTyped(buf, dir_entry, dataset) ==
    [buf EXCEPT
        !.dir_entries_by_tag_number = DictSet(@, dir_entry.tag_number, dir_entry),
        !.datasets_by_tag_number = DictSet(@, dir_entry.tag_number, dataset),
        !.dir_entries_by_typ = DictAppend(@, dir_entry.typ, dir_entry),
        !.datasets_by_typ = DictAppend(@, dir_entry.typ, dataset)]

\* Buffer.add_dataset
AddDataset(buf, dir_entry, dataset) ==
    LET tagged == [buf EXCEPT
            !.dir_entries_by_tag_number =
                DictSet(@, dir_entry.tag_number, dir_entry),
            !.datasets_by_tag_number =
                DictSet(@, dir_entry.tag_number, dataset)]
    IN  IF dir_entry.tag_number # TIME_TAG
        THEN [tagged EXCEPT
                !.dir_entries_by_typ = DictAppend(@, dir_entry.typ, dir_entry),
                !.datasets_by_typ = DictAppend(@, dir_entry.typ, dataset)]
        ELSE tagged

(***************************************************************************)
(* The filter: a dict from DirectoryEntry attribute names to the accepted  *)
(* values.                                                                 *)
(***************************************************************************)
\* `if filters:` of Python: the dict is not empty
NonEmpty(f) == DOMAIN f # {}

\* the attributes of the filter the entry matches (sea.py:495-505, 693-694)
MatchingAttrs(dir_entry, f) == {attr \in DOMAIN f : dir_entry[attr] \in f[attr]}

\* sea.py:494-505: the value of drop_buffer after the entry was compared
\* with the filter
DropAfterFilter(dir_entry, f, drop) ==
    IF NonEmpty(f) /\ MatchingAttrs(dir_entry, f) # {} THEN FALSE ELSE drop

(***************************************************************************)
(* The tests of SEAFile._raw_buffers.                                      *)
(***************************************************************************)
\* sea.py:442-445: the signature of the first entry of a buffer
IsTimeSignature(dir_entry) ==
    /\ dir_entry.tag_number = TIME_TAG
    /\ dir_entry.number_of_bytes = 36
    /\ dir_entry.samples = 2
    /\ dir_entry.bytes_per_sample = 18

\* sea.py:511: the cursor is at or past the last place a whole entry starts
AtEndOfFile(c, contents) == c >= Len(contents) - SIZE

\* sea.py:462: the cursor after a NEXT entry
CursorAfterNext(base, dir_entry) == base + dir_entry.data_offset

\* a resynchronisation that leaves the buffer base where it was
StaleBaseAfterResync(base, c) == base

\* sea.py:450: dir_base = cursor, with c the cursor after it moved one byte
BaseAfterResync(base, c) == c

\* a NEXT entry after which the next entry is taken as it comes
NoFirstTagAfterNext == FALSE

\* sea.py:469: first_tag after a NEXT entry
FirstTagAfterNext == TRUE

\* a decoder that takes every entry as matching every attribute of the filter
IterMatchesAll(dir_entry, f) == DOMAIN f

\* sea.py:693-694: the attributes of the filter for which iter_buffers
\* decodes the entry
IterMatches(dir_entry, f) == MatchingAttrs(dir_entry, f)

(***************************************************************************)
(* The body of the for loop of SEAFile.iter_buffers (sea.py:613-701) for   *)
(* one pair: what ends it and the Buffer built so far.                     *)
(*   "yield"  : NEXT reached, the Buffer is yielded (sea.py:652)           *)
(*   "break"  : NEXT reached, the Buffer is discarded                      *)
(*   "return" : LAST reached (sea.py:678-686)                              *)
(*   "raise"  : a decode raised                                            *)
(*   "end"    : the entries ran out                                        *)
(***************************************************************************)
RECURSIVE AddTimes(_, _, _, _)
AddTimes(buf, dir_entry, dataset, n) ==
    IF n = 0 THEN buf
    ELSE AddTimes(AddDataset(buf, dir_entry, dataset), dir_entry, dataset, n - 1)

IterResult(kind, buf, error) == [kind |-> kind, buffer |-> buf, error |-> error]

RECURSIVE IterRecords(_, _, _, _, _, _, _)
IterRecords(entries, raw_buffer, f, secondary, i, buf, discard) ==
    IF i > Len(entries) THEN IterResult("end", buf, None)
    ELSE
    LET dir_entry == entries[i]
        tag == dir_entry.tag_number
        Continue(b, d) == IterRecords(entries, raw_buffer, f, secondary, i + 1, b, d)
    IN
    IF tag = TIME_TAG THEN
        IF UnpackFits(raw_buffer, dir_entry.data_offset, TIME_DATASET_BYTES_PER_SAMPLE)
        THEN Continue(AddDataset(buf, dir_entry,
                        UnpackSEATime(raw_buffer, dir_entry.data_offset)), discard)
        ELSE IterResult("raise", buf, "struct.error")
    ELSE IF tag = NEXT_TAG THEN
        IF ~discard THEN IterResult("yield", buf, None)
        ELSE IterResult("break", buf, None)
    ELSE IF RESERVED_TAG_LOW_END <= tag /\ tag <= RESERVED_TAG_HIGH_END THEN
        Continue(buf, discard)
    ELSE IF tag = FILENAME_TAG \/ tag = FILEDATA_TAG THEN
        IF UnpackFits(raw_buffer, dir_entry.data_offset, StringDataSize(dir_entry))
        THEN Continue(AddDataset(buf, dir_entry,
                        UnpackStringData(raw_buffer, dir_entry)), discard)
        ELSE IterResult("raise", buf, "struct.error")
    ELSE IF tag = COMMAND_TAG \/ tag = ERROR_TAG \/ tag = SAME_TAG THEN
        Continue(buf, TRUE)
    ELSE IF tag = LAST_TAG THEN
        IterResult("return", buf, None)
    ELSE IF tag \in secondary THEN
        Continue(buf, TRUE)
    ELSE IF NonEmpty(f) THEN
        IF IterMatches(dir_entry, f) = {} THEN Continue(buf, discard)
        ELSE LET r == ReadDataset(dir_entry, raw_buffer)
             IN  IF r.status = "ok"
                 THEN Continue(AddTimes(buf, dir_entry, r.dataset,
                                        Cardinality(IterMatches(dir_entry, f))),
                               FALSE)
                 ELSE IterResult("raise", buf, r.status)
    ELSE
        LET r == ReadDataset(dir_entry, raw_buffer)
        IN  IF r.status = "ok"
            THEN Continue(AddDataset(buf, dir_entry, r.dataset), discard)
            ELSE IterResult("raise", buf, r.status)

\* sea.py:613-617: a new Buffer, discarded by default when there is a filter
IterBody(pair, f, secondary) ==
    IterRecords(pair.dir_entries, pair.raw_buffer, f, secondary, 1,
                NewBuffer, NonEmpty(f))

(***************************************************************************)
(* State.                                                                  *)
(***************************************************************************)
VARIABLES
    shape,          \* how the file was generated (never read by the program)
    file_bytes,     \* the bytes of the file self.filename names
    file_contents,  \* self._file_contents: Nothing (None) or Some(bytes)
    filters,        \* the filters argument of the scan
    secondary_tags, \* self._secondary_tags
    spc,            \* where the generator _raw_buffers stands
    cursor, dir_base, dir_entries, dir_entry,
    drop_buffer, reached_end, first_tag,
                    \* the locals of _raw_buffers (dir_entry: Nothing
                    \* before the first read, then Some(entry))
    raw_out,        \* the pairs _raw_buffers has yielded (at most MaxEmit kept)
    cur,            \* the pair the consumer holds: Nothing or Some(pair)
    ipc,            \* where iter_buffers stands ("raw": the consumer reads
                    \* _raw_buffers itself)
    yielded,        \* the Buffers iter_buffers has yielded (at most MaxEmit kept)
    exc,            \* the exception that ended the scan, or None
    rd_entry, rd_len, rd_result,
                    \* a call of _read_dataset: the entry, len(raw_buffer)
                    \* and the outcome
    seatime, dt_result,
                    \* a call of datetime_from_raw_seatime: the fields of
                    \* the time record and the outcome
    done_runs,      \* the outcomes of the scans of this SEAFile that were
                    \* read to their end, by kind of scan and filter
    default_filters,
                    \* the dicts that are the default value of the filters
                    \* parameter of _raw_buffers and of iter_buffers
    by_default,     \* the scan was called without a filters argument: its
                    \* filters is the default dict itself
    ctor,           \* where SEAFile.__init__ stands: "new", "init" (in
                    \* _init_from_file), "made" or "raised"
    file_datetime,  \* self._datetime: Nothing (None) or Some(datetime)
    other,          \* the frame of a second generator of this SEAFile that
                    \* is suspended: Nothing or Some(frame)
    new_buffer,     \* a Buffer that add_dataset is called on
    added,          \* the calls of add_dataset on new_buffer, in order:
                    \* <<dir_entry, dataset>>
    walk            \* the values cursor and dir_base were given in the
                    \* scan, in order (at most MaxWalk kept)

inputVars == <<shape, file_bytes, filters, secondary_tags>>
localVars == <<cursor, dir_base, dir_entries, dir_entry, drop_buffer,
               reached_end, first_tag>>
dtVars == <<seatime, dt_result>>
ctorVars == <<ctor, file_datetime>>
sideVars == <<other, new_buffer, added>>
callVars == <<default_filters, by_default, ctorVars, sideVars>>
rdVars == <<rd_entry, rd_len, rd_result, dtVars, done_runs, callVars>>
vars == <<inputVars, file_contents, spc, localVars, raw_out, cur, ipc,
          yielded, exc, rdVars, walk>>

(***************************************************************************)
(* The inputs.                                                             *)
(***************************************************************************)
\* the data tags a generated buffer can carry
Kinds == {<<8>>, <<7, 8>>}

\* the records of a buffer that opens with a COMMAND record
FlaggedKinds == {<<COMMAND_TAG, 7>>}

\* the NEXT-terminated buffers of a stream; only the first may be flagged
KindSeqs ==
    UNION {{ks \in [1..n -> Kinds \cup FlaggedKinds] :
                \A i \in 2..n : ks[i] \in Kinds} : n \in 0..MaxBuffers}

Variants == {"exact", "zero", "back"}

\* bytes of the file after the LAST entry (negative: the file is cut before
\* the end of the LAST entry)
Tails == {-17, -16, -1, 0, 1, 16, 17, 40}

\* the lengths of the files that hold no record at all
NoiseLengths == {0, 15, 16, 17, 40}

BufferShapes ==
    {[form |-> "buffers", garbage |-> g, kinds |-> ks, variant |-> v,
      last |-> l, tail |-> t] :
        g \in 0..MaxGarbage, ks \in KindSeqs, v \in Variants, l \in Kinds,
        t \in Tails}

NoiseShapes ==
    {[form |-> "noise", garbage |-> g, kinds |-> <<>>, variant |-> "exact",
      last |-> <<>>, tail |-> 0] : g \in NoiseLengths}

\* bytes after a LAST entry that stands alone
BareTails == {0, 20}

BareShapes ==
    {[form |-> "bare", garbage |-> g, kinds |-> ks, variant |-> "exact",
      last |-> <<>>, tail |-> t] :
        g \in 0..MaxGarbage, ks \in KindSeqs, t \in BareTails}

Shapes ==
    {sh \in BufferShapes : sh.kinds = <<>> => sh.variant = "exact"}
        \cup NoiseShapes \cup BareShapes

\* open(self.filename, 'rb').read() for the file a shape describes
FileOf(sh) ==
    CASE sh.form = "noise" -> [i \in 1..sh.garbage |-> 255]
      [] sh.form = "bare"  -> BareLastBytes(sh)
      [] OTHER             -> StreamBytes(sh)

Filters ==
    {EmptyDict, "tag_number" :> {7}, "tag_number" :> {NEXT_TAG},
     "tag_number" :> {TIME_TAG},
     "bogus" :> {1}, [tag_number |-> {7}, bogus |-> {1}]}

\* def _raw_buffers(self, filters={}) and def iter_buffers(self, filters={})
\* (sea.py:390, 591): one dict each, made when the class is defined
NoDefaults == [raw |-> EmptyDict, iter |-> EmptyDict]

(***************************************************************************)
(* Initial states: a SEAFile whose scan is about to start, read either     *)
(* through _raw_buffers alone or through iter_buffers.                     *)
(***************************************************************************)
Init ==
    /\ shape \in Shapes
    /\ file_bytes = FileOf(shape)
    /\ file_contents = Nothing
    /\ filters \in Filters
    /\ secondary_tags = {}
    /\ ipc \in {"raw", "pull"}
    /\ spc = "start"
    /\ cursor = 0 /\ dir_base = 0 /\ dir_entries = <<>> /\ dir_entry = Nothing
    /\ drop_buffer = FALSE /\ reached_end = FALSE /\ first_tag = TRUE
    /\ raw_out = <<>> /\ cur = Nothing /\ yielded = <<>> /\ exc = None
    /\ rd_entry = None /\ rd_len = 0 /\ rd_result = [status |-> "none"]
    /\ seatime = None /\ dt_result = [status |-> "none"]
    /\ done_runs = EmptyDict
    /\ default_filters = NoDefaults /\ by_default = FALSE
    /\ ctor = "made" /\ file_datetime = Nothing /\ other = Nothing
    /\ new_buffer = NewBuffer /\ added = <<>>
    /\ walk = <<>>

(***************************************************************************)
(* SEAFile._raw_buffers, one action per stretch of code between two        *)
(* suspensions of the generator, at most one pass of the while loop long.  *)
(***************************************************************************)
\* SEAFile._get_contents: the cached bytes, or the bytes of the file when
\* there are none cached
GetContents == IF file_contents = Nothing THEN file_bytes ELSE file_contents[1]

\* the consumer has asked the generator for the next pair ("init_pull": the
\* consumer is the for loop of _init_from_file)
Pulling == ipc \in {"raw", "pull", "init_pull"}

Pair(entries, base, raw) ==
    [dir_entries |-> entries, base |-> base, raw_buffer |-> raw]

Keep(history, x) ==
    IF Len(history) < MaxEmit THEN Append(history, x) ELSE history

\* yield dir_entries, raw: the consumer receives the pair
YieldPair(pair) ==
    /\ raw_out' = Keep(raw_out, pair)
    /\ cur' = Some(pair)
    /\ ipc' = CASE ipc = "pull"      -> "body"
                 [] ipc = "init_pull" -> "init_body"
                 [] OTHER             -> ipc

\* the generator returns: the for loop of iter_buffers ends, and with it
\* iter_buffers
ScanReturns ==
    /\ spc' = "done"
    /\ ipc' = IF ipc = "pull" THEN "done" ELSE ipc

\* sea.py:511-516 and the test of the while loop (sea.py:427), with the
\* values c, base, entries, ended of cursor, dir_base, dir_entries and
\* reached_end at that point
EndOfPass(c, base, entries, ended) ==
    IF AtEndOfFile(c, GetContents)
    THEN /\ YieldPair(Pair(entries, base, SliceFrom(GetContents, base)))
         /\ spc' = "yield_guard"
    ELSE /\ UNCHANGED <<raw_out, cur>>
         /\ IF ended THEN ScanReturns ELSE spc' = "loop" /\ UNCHANGED ipc

\* the walk with one more value of a local, while there is room
Walked(w, name, old, new) ==
    IF new # old /\ Len(w) < MaxWalk THEN Append(w, <<name, new>>) ELSE w

\* the step has given cursor or dir_base a new value: the values are added
\* to the walk of the scan in the order of the assignments (in every pass
\* of the loop cursor is assigned before dir_base)
Walk ==
    walk' = Walked(Walked(walk, "cursor", cursor, cursor'),
                   "dir_base", dir_base, dir_base')

\* a scan that goes on from where the cursor c of the last scan stood
ResumedCursor(c) == c

\* sea.py:403: cursor = 0, whatever the value c an earlier scan left
InitialCursor(c) == 0

\* sea.py:396-397: the keys of the filter that name no attribute of
\* DirectoryEntry
InvalidKeys(f) == DOMAIN f \ EntryAttrs

\* sea.py:401: del filters[attr_name]
DictDel(d, k) == [x \in (DOMAIN d) \ {k} |-> d[x]]

\* the default dict of the kind of scan under way
DefaultKind == IF ipc = "raw" THEN "raw" ELSE "iter"

\* sea.py:396-401: a key of the filter names no attribute.  The key is
\* deleted from the dict of the caller while the loop iterates over the keys
\* of that dict, and the next step of the loop raises RuntimeError
\* (dictionary changed size during iteration).
FilterRejected ==
    /\ spc = "start" /\ Pulling
    /\ \E k \in InvalidKeys(filters) :
          /\ filters' = DictDel(filters, k)
          /\ default_filters' =
                IF by_default
                THEN [default_filters EXCEPT ![DefaultKind] = DictDel(filters, k)]
                ELSE default_filters
    /\ exc' = "RuntimeError"
    /\ spc' = "raised"
    /\ ipc' = IF ipc = "pull" THEN "raised" ELSE ipc
    /\ UNCHANGED <<shape, file_bytes, secondary_tags, file_contents, localVars,
                   raw_out, cur, yielded, rd_entry, rd_len, rd_result, dtVars,
                   done_runs, by_default, ctorVars, sideVars>>
    /\ UNCHANGED walk

\* sea.py:390-421: the locals are set up and the file is read
ScanStart ==
    /\ spc = "start" /\ Pulling
    /\ InvalidKeys(filters) = {}
    /\ cursor' = InitialCursor(cursor) /\ dir_base' = InitialCursor(cursor)
    /\ dir_entries' = <<>>
    /\ drop_buffer' = NonEmpty(filters)
    /\ reached_end' = FALSE /\ first_tag' = TRUE
    /\ file_contents' = Some(GetContents)
    /\ spc' = "loop"
    /\ UNCHANGED <<inputVars, dir_entry, raw_out, cur, ipc, yielded, exc, rdVars>>
    /\ walk' = << <<"cursor", InitialCursor(cursor)>>,
                  <<"dir_base", InitialCursor(cursor)>> >>

\* sea.py:428-435: fewer than 16 bytes at the cursor.  new_from_raw_data
\* turns struct.error into IncompleteDirectoryEntryException only when the
\* message of struct.error is the one of the older interpreters.
ReadFails ==
    /\ spc = "loop" /\ Pulling
    /\ ~CanReadEntry(GetContents, cursor)
    /\ \E e \in {"UnexpectedEndOfFileException", "struct.error"} : exc' = e
    /\ spc' = "raised"
    /\ ipc' = IF ipc = "pull" THEN "raised" ELSE ipc
    /\ file_contents' = Some(GetContents)
    /\ UNCHANGED <<inputVars, localVars, raw_out, cur, yielded, rdVars>>
    /\ Walk

\* sea.py:441-451, no match: the cursor moves one byte on
Resync ==
    /\ spc = "loop" /\ Pulling
    /\ CanReadEntry(GetContents, cursor)
    /\ first_tag
    /\ LET e == UnpackEntry(GetContents, cursor)
       IN  /\ ~IsTimeSignature(e)
           /\ dir_entry' = Some(e)
           /\ cursor' = cursor + 1
           /\ dir_base' = BaseAfterResync(dir_base, cursor + 1)
           /\ dir_entries' = <<>>
           /\ EndOfPass(cursor + 1, BaseAfterResync(dir_base, cursor + 1),
                        <<>>, reached_end)
    /\ file_contents' = Some(GetContents)
    /\ UNCHANGED <<inputVars, drop_buffer, reached_end, first_tag, yielded,
                   exc, rdVars>>
    /\ Walk

\* sea.py:441-446, match: the entry is kept and the cursor stays
Synchronize ==
    /\ spc = "loop" /\ Pulling
    /\ CanReadEntry(GetContents, cursor)
    /\ first_tag
    /\ LET e == UnpackEntry(GetContents, cursor)
       IN  /\ IsTimeSignature(e)
           /\ dir_entry' = Some(e)
           /\ dir_entries' = Append(dir_entries, e)
           /\ first_tag' = FALSE
           /\ EndOfPass(cursor, dir_base, Append(dir_entries, e), reached_end)
    /\ file_contents' = Some(GetContents)
    /\ UNCHANGED <<inputVars, cursor, dir_base, drop_buffer, reached_end,
                   yielded, exc, rdVars>>
    /\ Walk

\* sea.py:467-476, 494-505, 511-516: what follows the yield of a
\* NEXT-terminated buffer, or its drop; e is the NEXT entry, c the cursor
AfterNext(e, c, base) ==
    /\ dir_base' = base
    /\ dir_entries' = <<>>
    /\ first_tag' = FirstTagAfterNext
    /\ drop_buffer' = DropAfterFilter(e, filters, NonEmpty(filters))
    /\ EndOfPass(c, base, <<>>, reached_end)

\* a dropped buffer that leaves the base where it was
StaleBaseAfterDrop(base, c) == base

\* sea.py:467: dir_base = cursor, also when the buffer was not yielded
BaseAfterDrop(base, c) == c

\* sea.py:461-465: a NEXT entry ends a buffer that is kept
NextKept ==
    /\ spc = "loop" /\ Pulling
    /\ CanReadEntry(GetContents, cursor)
    /\ ~first_tag
    /\ LET e == UnpackEntry(GetContents, cursor)
           c == CursorAfterNext(dir_base, e)
       IN  /\ e.tag_number = NEXT_TAG
           /\ ~drop_buffer
           /\ dir_entry' = Some(e)
           /\ dir_entries' = Append(dir_entries, e)
           /\ cursor' = c
           /\ YieldPair(Pair(Append(dir_entries, e), dir_base,
                             Slice(GetContents, dir_base, c)))
    /\ spc' = "yield_next"
    /\ file_contents' = Some(GetContents)
    /\ UNCHANGED <<inputVars, dir_base, drop_buffer, reached_end, first_tag,
                   yielded, exc, rdVars>>
    /\ Walk

\* the generator is resumed after the yield of sea.py:465
ResumeNext ==
    /\ spc = "yield_next" /\ Pulling
    /\ AfterNext(dir_entry[1], cursor, cursor)
    /\ file_contents' = Some(GetContents)
    /\ UNCHANGED <<inputVars, cursor, dir_entry, reached_end, yielded, exc,
                   rdVars>>
    /\ Walk

\* sea.py:461-476: a NEXT entry ends a buffer that is dropped
NextDropped ==
    /\ spc = "loop" /\ Pulling
    /\ CanReadEntry(GetContents, cursor)
    /\ ~first_tag
    /\ LET e == UnpackEntry(GetContents, cursor)
           c == CursorAfterNext(dir_base, e)
       IN  /\ e.tag_number = NEXT_TAG
           /\ drop_buffer
           /\ dir_entry' = Some(e)
           /\ cursor' = c
           /\ AfterNext(e, c, BaseAfterDrop(dir_base, c))
    /\ file_contents' = Some(GetContents)
    /\ UNCHANGED <<inputVars, reached_end, yielded, exc, rdVars>>
    /\ Walk

\* sea.py:489-490: the LAST entry: the rest of the file is yielded
LastFound ==
    /\ spc = "loop" /\ Pulling
    /\ CanReadEntry(GetContents, cursor)
    /\ ~first_tag
    /\ LET e == UnpackEntry(GetContents, cursor)
       IN  /\ e.tag_number = LAST_TAG
           /\ dir_entry' = Some(e)
           /\ dir_entries' = Append(dir_entries, e)
           /\ YieldPair(Pair(Append(dir_entries, e), dir_base,
                             SliceFrom(GetContents, dir_base)))
    /\ spc' = "yield_last"
    /\ file_contents' = Some(GetContents)
    /\ UNCHANGED <<inputVars, cursor, dir_base, drop_buffer, reached_end,
                   first_tag, yielded, exc, rdVars>>
    /\ Walk

\* the generator is resumed after the yield of sea.py:490 (sea.py:491-516)
ResumeLast ==
    /\ spc = "yield_last" /\ Pulling
    /\ reached_end' = TRUE
    /\ drop_buffer' = DropAfterFilter(dir_entry[1], filters, drop_buffer)
    /\ cursor' = cursor + SIZE
    /\ EndOfPass(cursor + SIZE, dir_base, dir_entries, TRUE)
    /\ file_contents' = Some(GetContents)
    /\ UNCHANGED <<inputVars, dir_base, dir_entries, dir_entry, first_tag,
                   yielded, exc, rdVars>>
    /\ Walk

\* sea.py:458-459, 478-487, 494-516: any other entry of a directory
OtherEntry ==
    /\ spc = "loop" /\ Pulling
    /\ CanReadEntry(GetContents, cursor)
    /\ ~first_tag
    /\ LET e == UnpackEntry(GetContents, cursor)
       IN  /\ e.tag_number \notin {NEXT_TAG, LAST_TAG}
           /\ dir_entry' = Some(e)
           /\ dir_entries' = Append(dir_entries, e)
           /\ drop_buffer' = DropAfterFilter(e, filters, drop_buffer)
           /\ cursor' = cursor + SIZE
           /\ EndOfPass(cursor + SIZE, dir_base, Append(dir_entries, e),
                        reached_end)
    /\ file_contents' = Some(GetContents)
    /\ UNCHANGED <<inputVars, dir_base, reached_end, first_tag, yielded, exc,
                   rdVars>>
    /\ Walk

\* the generator is resumed after the yield of sea.py:512 (sea.py:513-519)
ResumeGuard ==
    /\ spc = "yield_guard" /\ Pulling
    /\ reached_end' = TRUE
    /\ ScanReturns
    /\ UNCHANGED <<inputVars, file_contents, cursor, dir_base, dir_entries,
                   dir_entry, drop_buffer, first_tag, raw_out, cur, yielded,
                   exc, rdVars>>
    /\ Walk

(***************************************************************************)
(* SEAFile.iter_buffers: the body of its for loop for the pair received.   *)
(***************************************************************************)
\* sea.py:629-654: the Buffer is yielded; resumed, the loop asks for the
\* next pair
IterYield ==
    /\ ipc = "body"
    /\ LET r == IterBody(cur[1], filters, secondary_tags)
       IN  /\ r.kind = "yield"
           /\ yielded' = Keep(yielded, r.buffer)
    /\ ipc' = "pull"
    /\ UNCHANGED <<inputVars, file_contents, spc, localVars, raw_out, cur,
                   exc, rdVars>>
    /\ UNCHANGED walk

\* the Buffer is discarded (sea.py:630, 654) or the pair holds neither a
\* NEXT nor a LAST entry: the loop asks for the next pair
IterSkip ==
    /\ ipc = "body"
    /\ IterBody(cur[1], filters, secondary_tags).kind \in {"break", "end"}
    /\ ipc' = "pull"
    /\ UNCHANGED <<inputVars, file_contents, spc, localVars, raw_out, cur,
                   yielded, exc, rdVars>>
    /\ UNCHANGED walk

\* a release that leaves an empty byte string where the contents were
EmptiedContents(fc) == Some(<<>>)

\* sea.py:680: self._file_contents = None
ContentsAfterLast(fc) == Nothing

\* sea.py:678-686: the LAST entry: the file contents are released and
\* iter_buffers returns; the generator _raw_buffers is never resumed
IterReturn ==
    /\ ipc = "body"
    /\ IterBody(cur[1], filters, secondary_tags).kind = "return"
    /\ file_contents' = ContentsAfterLast(file_contents)
    /\ ipc' = "done"
    /\ spc' = "closed"
    /\ UNCHANGED <<inputVars, localVars, raw_out, cur, yielded, exc, rdVars>>
    /\ UNCHANGED walk

\* a decode raised: the exception leaves iter_buffers
IterRaise ==
    /\ ipc = "body"
    /\ LET r == IterBody(cur[1], filters, secondary_tags)
       IN  /\ r.kind = "raise"
           /\ exc' = r.error
    /\ ipc' = "raised"
    /\ spc' = "closed"
    /\ UNCHANGED <<inputVars, file_contents, localVars, raw_out, cur, yielded,
                   rdVars>>
    /\ UNCHANGED walk

Next ==
    \/ FilterRejected
    \/ ScanStart
    \/ ReadFails
    \/ Resync
    \/ Synchronize
    \/ NextKept
    \/ ResumeNext
    \/ NextDropped
    \/ LastFound
    \/ ResumeLast
    \/ OtherEntry
    \/ ResumeGuard
    \/ IterYield
    \/ IterSkip
    \/ IterReturn
    \/ IterRaise

Spec == Init /\ [][Next]_vars

\* the consumer reads the scan to exhaustion: whenever a step of the scan
\* or of the decoder can be taken, it is taken
FairSpec == Init /\ [][Next]_vars /\ WF_vars(Next)

\* the scan has come to its end for the consumer that reads it
ScanOver ==
    IF ipc = "raw" THEN spc \in {"done", "raised"} ELSE ipc \in {"done", "raised"}

(***************************************************************************)
(* A SEAFile that is scanned more than once: the consumer drops the        *)
(* generator it holds, at its end or before, and calls _raw_buffers or     *)
(* iter_buffers again on the same object.                                  *)
(***************************************************************************)
\* a filter as a set of <<attribute, accepted values>>
FilterKey(f) == {<<attr, f[attr]>> : attr \in DOMAIN f}

\* the kind of scan under way and its filter
RunKey == <<IF ipc = "raw" THEN "raw" ELSE "iter", FilterKey(filters)>>

\* what the consumer of the scan under way has received, and whether an
\* exception ended the scan (which exception a short read raises is a
\* matter of the interpreter, the same one for every scan of an object)
RunOutcome ==
    [raw_out |-> raw_out, yielded |-> yielded, raised |-> exc # None,
     walk |-> walk]

\* the files scanned more than once: none, one or two buffers, the first
\* with or without a record of tag 7, whole or cut inside the last payload,
\* and files that hold no record, one of them too short for an entry
RescanShapes ==
    {sh \in Shapes :
        \/ sh.form = "noise" /\ sh.garbage \in {15, 16}
        \/ /\ sh.form = "buffers" /\ sh.variant = "exact"
           /\ sh.kinds \in {<<>>, << <<8>> >>, << <<7, 8>> >>}
           /\ sh.last = <<8>>
           /\ sh.tail \in {-1, 1, 40}}

RescanFilters ==
    {EmptyDict, "tag_number" :> {7}, "tag_number" :> {NEXT_TAG}, "bogus" :> {1}}

InitRescan ==
    /\ Init
    /\ shape \in RescanShapes
    /\ filters \in RescanFilters

\* default dicts that take up the filter f of a call
SharedDefaults(defaults, f) == [kind \in DOMAIN defaults |-> f]

\* sea.py:390, 591: a call with a filters argument binds the parameter to
\* the argument f and leaves the default dicts as they are
DefaultsAfterCall(defaults, f) == defaults

\* a new call of _raw_buffers or iter_buffers (sea.py:390, 591), with a
\* filters argument or without (a scan whose filter was refused in the
\* prelude is not kept among the outcomes).  The object
\* keeps _file_contents as the last scan left it; the locals of the new
\* generator get their values in the prelude (ScanStart), until then the
\* model keeps the cursor of the old one.
Restart ==
    /\ ctor = "made" /\ other = Nothing
    /\ spc \notin {"start", "off"}
    /\ done_runs' = IF ScanOver /\ exc # "RuntimeError"
                    THEN DictSet(done_runs, RunKey, RunOutcome)
                    ELSE done_runs
    /\ ipc' \in {"raw", "pull"}
    /\ \/ /\ by_default' = FALSE
          /\ filters' \in RescanFilters
          /\ default_filters' = DefaultsAfterCall(default_filters, filters')
       \/ /\ by_default' = TRUE
          /\ filters' = default_filters[IF ipc' = "raw" THEN "raw" ELSE "iter"]
          /\ default_filters' = default_filters
    /\ spc' = "start"
    /\ dir_base' = 0 /\ dir_entries' = <<>> /\ dir_entry' = Nothing
    /\ drop_buffer' = FALSE /\ reached_end' = FALSE /\ first_tag' = TRUE
    /\ raw_out' = <<>> /\ cur' = Nothing /\ yielded' = <<>> /\ exc' = None
    /\ UNCHANGED <<shape, file_bytes, secondary_tags, file_contents, cursor,
                   rd_entry, rd_len, rd_result, dtVars, ctorVars, sideVars>>
    /\ walk' = <<>>

NextRescan == Next \/ Restart

SpecRescan == InitRescan /\ [][NextRescan]_vars

(***************************************************************************)
(* SEAFile.__init__: the file is checked, then scanned once for the        *)
(* configuration files it holds; the scans of the user follow.             *)
(***************************************************************************)
\* what _filetype_check can end with for a file: None (it returns) or the
\* name of the exception.  With fewer than 16 bytes unpack_from raises
\* struct.error, which new_from_raw_data turns into
\* IncompleteDirectoryEntryException only when its message is the one of the
\* older interpreters.
FiletypeOutcomes(contents) ==
    IF ~CanReadEntry(contents, 0)
    THEN {"InvalidSEAFileException", "struct.error"}
    ELSE LET first == UnpackEntry(contents, 0)
         IN  IF \/ first.tag_number # TIME_TAG
                \/ first.bytes_per_sample # TIME_DATASET_BYTES_PER_SAMPLE
                \/ first.address # TIME_DATASET_ADDRESS
             THEN {"InvalidSEAFileException"}
             ELSE {None}

\* the filter of the scan of _init_from_file
InitFilters == "tag_number" :> {FILEDATA_TAG}

\* the body of the for loop of _init_from_file for one pair, from record i
\* on, with dt the value of self._datetime: the first time record sets
\* self._datetime, a NEXT or LAST record ends the pair.  The configuration
\* files that FILENAME and FILEDATA records carry are not part of the state.
RECURSIVE InitRecords(_, _, _, _)
InitRecords(entries, raw_buffer, i, dt) ==
    IF i > Len(entries) THEN [status |-> "ok", datetime |-> dt]
    ELSE
    LET tag == entries[i].tag_number
    IN
    IF tag = TIME_TAG /\ dt = Nothing THEN
        LET r == DatetimeFromRawSeatime(raw_buffer, entries[i].data_offset)
        IN  IF r.status = "ok"
            THEN InitRecords(entries, raw_buffer, i + 1, Some(r.datetime))
            ELSE [status |-> r.status, datetime |-> dt]
    ELSE IF tag \in {NEXT_TAG, LAST_TAG} THEN [status |-> "ok", datetime |-> dt]
    ELSE InitRecords(entries, raw_buffer, i + 1, dt)

\* a file of one directory: a first record with the given fields, a LAST
\* record, and two time records as payload
HeadBytes(tag, samples, bps, address) ==
    EncodeEntry(Entry(tag, 2 * SIZE, samples * bps, samples, bps, 0, address))
        \o EncodeEntry(Entry(LAST_TAG, 0, 0, 0, 0, 0, 0))
        \o TimePayload

\* the first records tried: the time record of the M300 layout (two
\* samples), of the M200 layout (one sample), and records that differ from
\* them in one field or more
HeadShapes ==
    {[form |-> "head", garbage |-> 0, kinds |-> <<>>, variant |-> "exact",
      last |-> <<>>, tail |-> 0, head |-> <<tag, samples, bps, address>>] :
        tag \in {TIME_TAG, 7}, samples \in {1, 2},
        bps \in {TIME_DATASET_BYTES_PER_SAMPLE, 16},
        address \in {TIME_DATASET_ADDRESS, 0}}

\* bytes after the LAST entry in the files that are opened: 37 cuts the
\* payload of the last data record, 40 is the whole payload
OpenTails == {-17, 0, 37, 40}

OpenShapes ==
    HeadShapes
        \cup {sh \in NoiseShapes : sh.garbage \in {0, 15, 16}}
        \cup {[form |-> "buffers", garbage |-> g, kinds |-> ks,
               variant |-> "exact", last |-> <<8>>, tail |-> t] :
                g \in 0..1,
                ks \in {<<>>, << <<8>> >>, << <<7, 8>> >>,
                        << <<COMMAND_TAG, 7>> >>},
                t \in OpenTails}

OpenFileOf(sh) ==
    IF sh.form = "head"
    THEN HeadBytes(sh.head[1], sh.head[2], sh.head[3], sh.head[4])
    ELSE FileOf(sh)

\* SEAFile(filename) is called: nothing of __init__ has run
InitOpen ==
    /\ shape \in OpenShapes
    /\ file_bytes = OpenFileOf(shape)
    /\ file_contents = Nothing
    /\ filters = EmptyDict /\ secondary_tags = {}
    /\ ipc = "off" /\ spc = "off"
    /\ cursor = 0 /\ dir_base = 0 /\ dir_entries = <<>> /\ dir_entry = Nothing
    /\ drop_buffer = FALSE /\ reached_end = FALSE /\ first_tag = TRUE
    /\ raw_out = <<>> /\ cur = Nothing /\ yielded = <<>> /\ exc = None
    /\ rd_entry = None /\ rd_len = 0 /\ rd_result = [status |-> "none"]
    /\ seatime = None /\ dt_result = [status |-> "none"]
    /\ done_runs = EmptyDict
    /\ default_filters = NoDefaults /\ by_default = FALSE
    /\ ctor = "new" /\ file_datetime = Nothing /\ other = Nothing
    /\ new_buffer = NewBuffer /\ added = <<>>
    /\ walk = <<>>

\* sea.py:167-201: __init__ up to the end of _filetype_check; when the check
\* passes, _init_from_file calls _raw_buffers with its filter
FiletypeCheck ==
    /\ ctor = "new"
    /\ file_contents' = Some(GetContents)
    /\ \E outcome \in FiletypeOutcomes(GetContents) :
          IF outcome = None
          THEN /\ ctor' = "init" /\ spc' = "start" /\ ipc' = "init_pull"
               /\ filters' = InitFilters
               /\ exc' = exc
          ELSE /\ ctor' = "raised" /\ exc' = outcome
               /\ UNCHANGED <<spc, ipc, filters>>
    /\ UNCHANGED <<shape, file_bytes, secondary_tags, localVars, raw_out, cur,
                   yielded, rd_entry, rd_len, rd_result, dtVars, done_runs,
                   default_filters, by_default, file_datetime, sideVars>>
    /\ UNCHANGED walk

\* sea.py:301-386: the body of the for loop of _init_from_file
InitBody ==
    /\ ctor = "init" /\ ipc = "init_body"
    /\ LET r == InitRecords(cur[1].dir_entries, cur[1].raw_buffer, 1,
                            file_datetime)
       IN  /\ file_datetime' = r.datetime
           /\ IF r.status = "ok"
              THEN ipc' = "init_pull" /\ UNCHANGED <<ctor, exc>>
              ELSE ipc' = "raised" /\ ctor' = "raised" /\ exc' = r.status
    /\ UNCHANGED <<inputVars, file_contents, spc, localVars, raw_out, cur,
                   yielded, rd_entry, rd_len, rd_result, dtVars, done_runs,
                   default_filters, by_default, sideVars>>
    /\ UNCHANGED walk

\* the scan of _init_from_file is over: __init__ returns (sea.py:388), or
\* the exception of the scan leaves it
InitDone ==
    /\ ctor = "init" /\ ipc = "init_pull" /\ spc \in {"done", "raised"}
    /\ ctor' = IF spc = "done" THEN "made" ELSE "raised"
    /\ ipc' = "raw"
    /\ UNCHANGED <<inputVars, file_contents, spc, localVars, raw_out, cur,
                   yielded, exc, rd_entry, rd_len, rd_result, dtVars,
                   done_runs, default_filters, by_default, file_datetime,
                   sideVars>>
    /\ UNCHANGED walk

\* the steps of a SEAFile from the call of its constructor on.  ReadFails is
\* not among them: a file that passed _filetype_check holds 16 bytes or
\* more, and the test of sea.py:511 ends every scan of such a file before a
\* read at the cursor can fail.
NextOpen ==
    \/ FiletypeCheck
    \/ InitBody
    \/ InitDone
    \/ Restart
    \/ FilterRejected
    \/ ScanStart
    \/ Resync
    \/ Synchronize
    \/ NextKept
    \/ ResumeNext
    \/ NextDropped
    \/ LastFound
    \/ ResumeLast
    \/ OtherEntry
    \/ ResumeGuard
    \/ IterYield
    \/ IterSkip
    \/ IterReturn
    \/ IterRaise

SpecOpen == InitOpen /\ [][NextOpen]_vars

(***************************************************************************)
(* Two generators of one SEAFile.  Each call of iter_buffers makes a       *)
(* generator with locals of its own; self._file_contents is the one thing  *)
(* they share that a scan writes.  One generator is live, the frame of the *)
(* other is kept aside, and the consumer goes from one to the other.  The  *)
(* consumer can do so only where a generator is suspended; here it may     *)
(* after any step, which holds every interleaving the consumer can make.   *)
(***************************************************************************)
\* the locals of the live generators _raw_buffers and iter_buffers, and
\* what their consumer has received
Frame ==
    [filters |-> filters, spc |-> spc, cursor |-> cursor, dir_base |-> dir_base,
     dir_entries |-> dir_entries, dir_entry |-> dir_entry,
     drop_buffer |-> drop_buffer, reached_end |-> reached_end,
     first_tag |-> first_tag, raw_out |-> raw_out, cur |-> cur, ipc |-> ipc,
     yielded |-> yielded, exc |-> exc, walk |-> walk]

\* the frame of iter_buffers(f) (kind "pull") or of _raw_buffers(f) read by
\* the consumer itself (kind "raw") before its first step
FreshFrame(f, kind) ==
    [filters |-> f, spc |-> "start", cursor |-> 0, dir_base |-> 0,
     dir_entries |-> <<>>, dir_entry |-> Nothing, drop_buffer |-> FALSE,
     reached_end |-> FALSE, first_tag |-> TRUE, raw_out |-> <<>>,
     cur |-> Nothing, ipc |-> kind, yielded |-> <<>>, exc |-> None,
     walk |-> <<>>]

\* the frame fr becomes the live generator
Resume(fr) ==
    /\ filters' = fr.filters /\ spc' = fr.spc
    /\ cursor' = fr.cursor /\ dir_base' = fr.dir_base
    /\ dir_entries' = fr.dir_entries /\ dir_entry' = fr.dir_entry
    /\ drop_buffer' = fr.drop_buffer /\ reached_end' = fr.reached_end
    /\ first_tag' = fr.first_tag
    /\ raw_out' = fr.raw_out /\ cur' = fr.cur /\ ipc' = fr.ipc
    /\ yielded' = fr.yielded /\ exc' = fr.exc /\ walk' = fr.walk

\* the files and the filters of the scans that are interleaved
TwoShapes ==
    {sh \in Shapes :
        \/ sh.form = "noise" /\ sh.garbage \in {15, 16}
        \/ /\ sh.form = "buffers" /\ sh.variant = "exact" /\ sh.garbage = 0
           /\ sh.kinds \in {<<>>, << <<8>> >>, << <<7, 8>> >>,
                           << <<COMMAND_TAG, 7>> >>}
           /\ sh.last = <<8>>
           /\ sh.tail \in {-1, 40}}

TwoFilters == {EmptyDict, "tag_number" :> {7}, "bogus" :> {1}}

InitTwo ==
    /\ Init
    /\ shape \in TwoShapes
    /\ filters \in TwoFilters

\* the scan that ran alone is over and its outcome is kept; two generators
\* are made, one of the kind and with the filter of that scan and one of any
\* kind with any filter
Spawn ==
    /\ other = Nothing /\ ScanOver
    /\ done_runs' = IF exc # "RuntimeError"
                    THEN DictSet(done_runs, RunKey, RunOutcome)
                    ELSE done_runs
    /\ Resume(FreshFrame(filters, IF ipc = "raw" THEN "raw" ELSE "pull"))
    /\ \E f \in TwoFilters, kind \in {"raw", "pull"} :
          other' = Some(FreshFrame(f, kind))
    /\ UNCHANGED <<shape, file_bytes, secondary_tags, file_contents, rd_entry,
                   rd_len, rd_result, dtVars, default_filters, by_default,
                   ctorVars, new_buffer, added>>

\* the consumer turns to the other generator
Switch ==
    /\ other # Nothing
    /\ other' = Some(Frame)
    /\ Resume(other[1])
    /\ UNCHANGED <<shape, file_bytes, secondary_tags, file_contents, rd_entry,
                   rd_len, rd_result, dtVars, done_runs, default_filters,
                   by_default, ctorVars, new_buffer, added>>

NextTwo == Next \/ Spawn \/ Switch

SpecTwo == InitTwo /\ [][NextTwo]_vars

(***************************************************************************)
(* Buffer.add_dataset on its own: a Buffer is filled by the calls that     *)
(* iter_buffers makes, with records drawn from a small set.                *)
(***************************************************************************)
\* the number of records added to a Buffer
MaxAdds == 3

\* the records added: a time record, two records of tag 7 that differ in
\* their data_offset, and a record of tag 8 of another type
BufferEntries ==
    {TimeEntry(64), DataEntry(7, 100), DataEntry(7, 102), DataEntry(8, 104)}

\* the datasets added
BufferDatasets == {<<1>>, <<2>>}

InitBuffer ==
    /\ new_buffer = NewBuffer /\ added = <<>>
    /\ rd_entry = None /\ rd_len = 0 /\ rd_result = [status |-> "none"]
    /\ seatime = None /\ dt_result = [status |-> "none"]
    /\ shape = None /\ file_bytes = <<>> /\ file_contents = Nothing
    /\ filters = EmptyDict /\ secondary_tags = {}
    /\ ipc = "off" /\ spc = "off"
    /\ cursor = 0 /\ dir_base = 0 /\ dir_entries = <<>> /\ dir_entry = Nothing
    /\ drop_buffer = FALSE /\ reached_end = FALSE /\ first_tag = TRUE
    /\ raw_out = <<>> /\ cur = Nothing /\ yielded = <<>> /\ exc = None
    /\ done_runs = EmptyDict
    /\ default_filters = NoDefaults /\ by_default = FALSE
    /\ ctor = "made" /\ file_datetime = Nothing /\ other = Nothing
    /\ walk = <<>>

\* new_buffer.add_dataset(dir_entry, dataset), as iter_buffers calls it:
\* once for a record (sea.py:627, 663, 667, 701), or once for every
\* attribute of the filter the record matches (sea.py:693-696)
AddDatasetCall ==
    /\ Len(added) < MaxAdds
    /\ \E e \in BufferEntries, dataset \in BufferDatasets, times \in 1..2 :
          /\ times > 1 => e.tag_number # TIME_TAG
          /\ new_buffer' = AddTimes(new_buffer, e, dataset, times)
          /\ added' = IF times = 2
                       THEN Append(Append(added, <<e, dataset>>), <<e, dataset>>)
                       ELSE Append(added, <<e, dataset>>)
    /\ UNCHANGED <<inputVars, file_contents, spc, localVars, raw_out, cur,
                   ipc, yielded, exc, rd_entry, rd_len, rd_result, dtVars,
                   done_runs, default_filters, by_default, ctorVars, other,
                   walk>>

NextBuffer == AddDatasetCall

SpecBuffer == InitBuffer /\ [][NextBuffer]_vars

(***************************************************************************)
(* SEAFile._read_dataset on its own: the entry and the length of the       *)
(* buffer are drawn from bounded sets, the buffer holds zero bytes.        *)
(***************************************************************************)
\* acquisition types tried: the known ones and one that is not in the table
ReadTypes == KnownTypes \cup {200}

\* values of bytes_per_sample tried
ReadWidths == {1, 2, 4, 16, 18, 42, 4096, 4098}

ReadEntries ==
    {Entry(7, off, Max(0, n * w + d), n, w, t, 0) :
        off \in {0, 3}, n \in 1..MaxSamples, w \in ReadWidths,
        d \in {-1, 0, 1}, t \in ReadTypes}

InitRead ==
    /\ rd_entry \in ReadEntries
    /\ \E slack \in {-1, 0, 1} :
          rd_len = rd_entry.data_offset + ExpectedSize(rd_entry) + slack
    /\ rd_result = [status |-> "pending"]
    /\ shape = None /\ file_bytes = <<>> /\ file_contents = Nothing
    /\ filters = EmptyDict /\ secondary_tags = {}
    /\ ipc = "off" /\ spc = "off"
    /\ cursor = 0 /\ dir_base = 0 /\ dir_entries = <<>> /\ dir_entry = Nothing
    /\ drop_buffer = FALSE /\ reached_end = FALSE /\ first_tag = TRUE
    /\ raw_out = <<>> /\ cur = Nothing /\ yielded = <<>> /\ exc = None
    /\ seatime = None /\ dt_result = [status |-> "none"]
    /\ done_runs = EmptyDict
    /\ default_filters = NoDefaults /\ by_default = FALSE
    /\ ctor = "made" /\ file_datetime = Nothing /\ other = Nothing
    /\ new_buffer = NewBuffer /\ added = <<>>
    /\ walk = <<>>

\* self._read_dataset(dir_entry, raw_buffer)
ReadDatasetCall ==
    /\ rd_result.status = "pending"
    /\ rd_result' = ReadDataset(rd_entry, Padding(rd_len))
    /\ UNCHANGED <<inputVars, file_contents, spc, localVars, raw_out, cur,
                   ipc, yielded, exc, rd_entry, rd_len, dtVars, done_runs,
                   callVars>>
    /\ UNCHANGED walk

NextRead == ReadDatasetCall

SpecRead == InitRead /\ [][NextRead]_vars

(***************************************************************************)
(* datetime_from_raw_seatime on its own: the fields of an 18-byte time     *)
(* record are drawn from bounded sets.                                     *)
(***************************************************************************)
\* fraction_of_second and max_sys_freq
Ticks ==
    {<<5000, 10000>>, <<0, 1>>, <<1, 3>>, <<2, 3>>, <<1999, 2000>>,
     <<9999, 10000>>, <<65534, 65535>>, <<10000, 10000>>, <<3, 2>>,
     <<5, 0>>, <<0, 0>>, <<65535, 1>>, <<65535, 30>>, <<64411, 30>>}

SeaTimes ==
    {[year |-> y, month |-> mo, day |-> d, hour |-> h, minute |-> mi,
      second |-> s, fraction_of_second |-> tk[1], max_sys_freq |-> tk[2],
      buffer_life_span |-> 0] :
        y \in {0, 2019, 2020, 9999, 10000}, mo \in {0, 2, 3, 12, 13},
        d \in {0, 1, 28, 29, 30, 31, 32}, h \in {10, 24}, mi \in {0, 60},
        s \in {0, 59, 60}, tk \in Ticks}

InitTime ==
    /\ seatime \in SeaTimes
    /\ dt_result = [status |-> "pending"]
    /\ rd_entry = None /\ rd_len = 0 /\ rd_result = [status |-> "none"]
    /\ shape = None /\ file_bytes = <<>> /\ file_contents = Nothing
    /\ filters = EmptyDict /\ secondary_tags = {}
    /\ ipc = "off" /\ spc = "off"
    /\ cursor = 0 /\ dir_base = 0 /\ dir_entries = <<>> /\ dir_entry = Nothing
    /\ drop_buffer = FALSE /\ reached_end = FALSE /\ first_tag = TRUE
    /\ raw_out = <<>> /\ cur = Nothing /\ yielded = <<>> /\ exc = None
    /\ done_runs = EmptyDict
    /\ default_filters = NoDefaults /\ by_default = FALSE
    /\ ctor = "made" /\ file_datetime = Nothing /\ other = Nothing
    /\ new_buffer = NewBuffer /\ added = <<>>
    /\ walk = <<>>

\* datetime_from_raw_seatime(record, 0) for the record that packs the fields
DatetimeCall ==
    /\ dt_result.status = "pending"
    /\ dt_result' = DatetimeFromRawSeatime(EncodeSEATime(seatime), 0)
    /\ UNCHANGED <<inputVars, file_contents, spc, localVars, raw_out, cur,
                   ipc, yielded, exc, rd_entry, rd_len, rd_result, seatime,
                   done_runs, callVars>>
    /\ UNCHANGED walk

NextTime == DatetimeCall

SpecTime == InitTime /\ [][NextTime]_vars

(***************************************************************************)
(* Properties.                                                             *)
(***************************************************************************)
\* the file is a run of whole buffers: n NEXT-terminated ones with the right
\* data_offset and a LAST-terminated one whose LAST entry is in the file
WholeBuffers ==
    shape.form = "buffers" /\ shape.variant = "exact" /\ shape.tail >= 0

\* an entry that matches the time signature can be read at offset k
SignatureAt(k) ==
    CanReadEntry(file_bytes, k) /\ IsTimeSignature(UnpackEntry(file_bytes, k))

\* C1: every scan that is read to exhaustion terminates, whatever the
\* data_offset of the NEXT entries: at some point the scan is over.
C1_ScanTerminates == <>ScanOver

\* C2: an unfiltered scan of n NEXT-terminated buffers and one
\* LAST-terminated buffer, read to its end through _raw_buffers, has yielded
\* exactly n + 1 pairs, whatever the number of bytes after the LAST entry.
C2_OnePairPerBuffer ==
    (WholeBuffers /\ ~NonEmpty(filters) /\ ipc = "raw" /\ spc = "done")
        => Len(raw_out) = Len(shape.kinds) + 1

\* C3: iter_buffers without a filter, read to its end over n NEXT-terminated
\* buffers and one LAST-terminated buffer, has yielded n + 1 Buffers.
C3_OneBufferPerSegment ==
    (WholeBuffers /\ ~NonEmpty(filters) /\ ipc = "done")
        => Len(yielded) = Len(shape.kinds) + 1

\* the first record of the file is at offset k: no offset below k holds an
\* entry that matches the signature, the entry at k does, and the payload it
\* declares (relative to k) lies in the file
ValidFirstRecordAt(k) ==
    /\ SignatureAt(k)
    /\ \A j \in 0..(k - 1) : ~SignatureAt(j)
    /\ LET e == UnpackEntry(file_bytes, k)
       IN  k + e.data_offset + e.number_of_bytes <= Len(file_bytes)

\* C4: with k garbage bytes before a valid first record, the first pair an
\* unfiltered scan yields has base k: its entries start with the entry at k
\* and its bytes are the bytes of the file from k on.
C4_FirstBufferAtGarbageEnd ==
    (shape.form = "buffers" /\ ValidFirstRecordAt(shape.garbage)
            /\ ~NonEmpty(filters) /\ raw_out # <<>>)
        => LET p == raw_out[1]
           IN  /\ p.base = shape.garbage
               /\ p.dir_entries # <<>>
               /\ p.dir_entries[1] = UnpackEntry(file_bytes, shape.garbage)
               /\ p.raw_buffer = Slice(file_bytes, shape.garbage,
                                       shape.garbage + Len(p.raw_buffer))

\* C4 witness: a file with garbage before its first record has yielded a pair
\* that holds the whole first buffer
C4_Witness ==
    /\ shape.form = "buffers" /\ shape.garbage >= 1
    /\ ValidFirstRecordAt(shape.garbage)
    /\ ~NonEmpty(filters)
    /\ raw_out # <<>>
    /\ raw_out[1].base = shape.garbage
    /\ Len(raw_out[1].dir_entries) >= 3

\* no offset of the file holds an entry that matches the time signature
NoSignature == \A k \in 0..Len(file_bytes) : ~SignatureAt(k)

\* C5: when no entry of the file matches the time signature the scan ends
\* with an error: it yields no pair and does not end normally.
C5_NoSignatureIsFatal ==
    NoSignature => (raw_out = <<>> /\ spc # "done")

\* the original C6: signature matching is over once the first record of the
\* file has been matched (first_tag, once false, stays false)
C6_SignatureMatchedOnce == [][first_tag' => first_tag]_vars

\* C6 as the code has it: signature matching and byte-by-byte advancing
\* happen at the start of every buffer.  (1) a directory is only ever read
\* from a base that holds an entry matching the time signature, the first
\* entry kept; (2) signature matching starts again exactly at a NEXT entry,
\* with the base and the cursor at old base + data_offset; (3) while it lasts,
\* an entry that matches ends it and leaves the base where it is, and any
\* other entry moves the cursor and the base one byte on.
C6_SignatureMatchedPerBuffer ==
    /\ []((spc \in {"loop", "yield_next", "yield_last", "yield_guard", "done"}
                /\ ~first_tag)
            => (SignatureAt(dir_base) /\ dir_entries # <<>>
                /\ dir_entries[1] = UnpackEntry(file_bytes, dir_base)))
    /\ [][(first_tag' /\ ~first_tag)
            => (dir_entry'[1].tag_number = NEXT_TAG
                /\ dir_base' = dir_base + dir_entry'[1].data_offset
                /\ cursor' = dir_base')]_vars
    /\ [][(spc = "loop" /\ first_tag /\ exc' = exc /\ cursor' # cursor)
            => (~SignatureAt(cursor) /\ cursor' = cursor + 1
                /\ dir_base' = cursor')]_vars
    /\ [][(spc = "loop" /\ first_tag /\ ~first_tag')
            => (SignatureAt(cursor) /\ cursor' = cursor /\ dir_base' = dir_base)]_vars

\* C6 witness: after the first pair, ended by a NEXT entry, the scanner has
\* moved the base one byte past the place the NEXT entry pointed to
C6_Witness ==
    /\ raw_out # <<>>
    /\ first_tag
    /\ spc = "loop"
    /\ LET es == raw_out[1].dir_entries
       IN  /\ es # <<>>
           /\ es[Len(es)].tag_number = NEXT_TAG
           /\ dir_base = raw_out[1].base + es[Len(es)].data_offset + 1

\* some entry of the pair has an attribute value the filter lists
PairMatches(p, f) ==
    \E i \in 1..Len(p.dir_entries) : MatchingAttrs(p.dir_entries[i], f) # {}

\* C7: with a non-empty filter every pair the scanner yields holds an entry
\* that matches the filter (a buffer with no match is never yielded, the last
\* one included).
C7_OnlyMatchingBuffers ==
    NonEmpty(filters)
        => \A i \in 1..Len(raw_out) : PairMatches(raw_out[i], filters)

\* the entries of a pair that the decoder comes to: those before the first
\* NEXT or LAST entry
Reached(p) ==
    {i \in 1..Len(p.dir_entries) :
        \A j \in 1..i : p.dir_entries[j].tag_number \notin {NEXT_TAG, LAST_TAG}}

\* the tag numbers of the ordinary data entries the decoder comes to
DataTags(p, secondary) ==
    {p.dir_entries[i].tag_number : i \in
        {j \in Reached(p) :
            /\ p.dir_entries[j].tag_number # TIME_TAG
            /\ p.dir_entries[j].tag_number < RESERVED_TAG_LOW_END
            /\ p.dir_entries[j].tag_number \notin secondary}}

\* the pair is ended by a NEXT entry
EndsWithNext(p) ==
    \E i \in 1..Len(p.dir_entries) :
        /\ p.dir_entries[i].tag_number = NEXT_TAG
        /\ (i - 1) \in Reached(p) \cup {0}

\* the tag numbers a Buffer holds a dataset for
DecodedTags(buf) == DOMAIN buf.datasets_by_tag_number

OnlyTag7 == "tag_number" :> {7}

C9_StopsOnlyOnPartialEntry ==
    (spc = "yield_guard" /\ ~reached_end) => Len(file_bytes) - cursor < SIZE

\* C10: for a known acquisition type and number_of_bytes >= samples *
\* bytes_per_sample, a payload that ends exactly at the end of the buffer
\* decodes, and one that ends one byte later is rejected with ValueError.
C10_PayloadBoundary ==
    (rd_result.status \notin {"none", "pending"}
            /\ rd_entry.typ \in KnownTypes
            /\ rd_entry.number_of_bytes >= ExpectedSize(rd_entry))
        => /\ (rd_entry.data_offset + ExpectedSize(rd_entry) = rd_len
                  => rd_result.status = "ok")
           /\ (rd_entry.data_offset + ExpectedSize(rd_entry) = rd_len + 1
                  => rd_result.status = "ValueError")

\* the call of _read_dataset has returned or raised
ReadOver == rd_result.status \notin {"none", "pending"}

\* the bytes struct.unpack_from is asked to read for an entry of a known type
UnpackedSize(e) == e.samples * CalcSize(SampleString(e))

\* C11: for a known acquisition type, whenever the bytes that would be
\* unpacked extend past the end of raw_buffer the call ends with the
\* ValueError of the overrun check, so unpacking is never attempted on a
\* range that leaves the buffer.
C11_OverrunCheckGuardsDecode ==
    (ReadOver /\ rd_entry.typ \in KnownTypes
            /\ rd_entry.data_offset + UnpackedSize(rd_entry) > rd_len)
        => rd_result.status = "ValueError"

\* C12: an entry of an unknown acquisition type decodes as number_of_bytes
\* unsigned bytes with exactly one warning and never raises, whatever
\* data_offset and number_of_bytes are relative to len(raw_buffer).
C12_UnknownTypeNeverFatal ==
    (ReadOver /\ rd_entry.typ \notin KnownTypes)
        => /\ rd_result.status = "ok"
           /\ Len(rd_result.dataset) = rd_entry.number_of_bytes
           /\ rd_result.warnings = <<"unknown acquisition type">>

\* the per-sample layout the table of the specification gives for a type
\* other than 66
TableLayout(typ, bytes_per_sample) ==
    CASE typ \in {1, 35}   -> << <<1, "h">> >>
      [] typ = 2           -> << <<20, "H">>, <<2, "b">> >>
      [] typ = 5           -> << <<1024, "I">> >>
      [] typ = 6           -> << <<2, "H">> >>
      [] typ \in {7, 8}    -> << <<1, "I">> >>
      [] typ \in {9, 10}   -> << <<1, "H">> >>
      [] typ = 11          -> << <<8, "H">> >>
      [] typ = 78          -> << <<4096, "B">> >>
      [] typ \in {85, 255} -> << <<bytes_per_sample, "B">> >>

\* C13: for every known type other than 66 the layout unpacked per sample is
\* the one of the table (4096 unsigned bytes for type 78), and a decode that
\* succeeds returns samples times that many values.
C13_DispatchTable ==
    (ReadOver /\ rd_entry.typ \in KnownTypes \ {66})
        => LET layout == TableLayout(rd_entry.typ, rd_entry.bytes_per_sample)
           IN  /\ SampleString(rd_entry) = layout
               /\ rd_result.status = "ok"
                    => Len(rd_result.dataset) = rd_entry.samples * ElemCount(layout)

\* C14: for type 66 with the declared payload inside raw_buffer the decode
\* completes with samples * ceil(bytes_per_sample / 16) pairs of 64-bit
\* values, with a warning when bytes_per_sample is no multiple of 16.
C14_Type66RoundsUp ==
    (ReadOver /\ rd_entry.typ = 66
            /\ rd_entry.number_of_bytes >= ExpectedSize(rd_entry)
            /\ ~PayloadOverrun(rd_entry, Padding(rd_len)))
        => /\ rd_result.status = "ok"
           /\ Len(rd_result.dataset)
                = rd_entry.samples * 2 * CeilDiv16(rd_entry.bytes_per_sample)
           /\ (rd_entry.bytes_per_sample % 16 # 0)
                => rd_result.warnings = <<"not a multiple of 128 bits">>

\* the call of datetime_from_raw_seatime has returned or raised
TimeOver == dt_result.status \notin {"none", "pending"}

\* the calendar fields of the record are those of a date and a time of day
ValidCalendar(t) ==
    ValidDatetime(t.year, t.month, t.day, t.hour, t.minute, t.second, 0)

\* C15: with valid calendar fields, max_sys_freq > 0 and fraction_of_second
\* < max_sys_freq the record decodes, microsecond is floor(1000000 *
\* fraction_of_second / max_sys_freq) and lies in 0..999999; 5000 ticks of
\* 10000 on 2019-03-01 10:00:00 give 2019-03-01T10:00:00.500000.
C15_MicrosecondIsFloor ==
    (TimeOver /\ ValidCalendar(seatime) /\ seatime.max_sys_freq > 0
            /\ seatime.fraction_of_second < seatime.max_sys_freq)
        => /\ dt_result.status = "ok"
           /\ dt_result.datetime.microsecond \in 0..999999
           /\ seatime.fraction_of_second <= 2000
                => LET us == dt_result.datetime.microsecond
                       n  == 1000000 * seatime.fraction_of_second
                   IN  us * seatime.max_sys_freq <= n
                           /\ n < (us + 1) * seatime.max_sys_freq
           /\ (seatime.fraction_of_second = 5000 /\ seatime.max_sys_freq = 10000)
                => dt_result.datetime.microsecond = 500000
           /\ dt_result.datetime.year = seatime.year
           /\ dt_result.datetime.month = seatime.month
           /\ dt_result.datetime.day = seatime.day
           /\ dt_result.datetime.hour = seatime.hour
           /\ dt_result.datetime.minute = seatime.minute
           /\ dt_result.datetime.second = seatime.second

\* C15 witness: the record of the example has been decoded
C15_Witness ==
    /\ TimeOver
    /\ seatime = [year |-> 2019, month |-> 3, day |-> 1, hour |-> 10,
                  minute |-> 0, second |-> 0, fraction_of_second |-> 5000,
                  max_sys_freq |-> 10000, buffer_life_span |-> 0]
    /\ dt_result.status = "ok"
    /\ dt_result.datetime.microsecond = 500000

\* C16: every time record either decodes to a timestamp or fails with the
\* ValueError of the timestamp construction; in particular that is the
\* outcome when max_sys_freq = 0 or fraction_of_second >= max_sys_freq.
C16_OnlyInvalidTimeError ==
    TimeOver
        => /\ dt_result.status \in {"ok", "ValueError"}
           /\ (seatime.max_sys_freq = 0
                    \/ seatime.fraction_of_second >= seatime.max_sys_freq)
                => dt_result.status = "ValueError"

\* C17: a scan of a SEAFile that is read to its end gives what every earlier
\* full scan of the same kind with the same filter gave on that object,
\* whatever happened in between: scans that released the file contents at
\* the LAST entry, scans with another filter, scans that were abandoned
\* (a scan whose filter is refused in the prelude reads nothing of the file).
C17_RescanEqual ==
    (ScanOver /\ exc # "RuntimeError" /\ RunKey \in DOMAIN done_runs)
        => done_runs[RunKey] = RunOutcome

\* C17 witness: an unfiltered iter_buffers has ended at the LAST entry, which
\* released the file contents, after an earlier full unfiltered iter_buffers
\* and a full scan of another kind or filter; it has yielded a Buffer
C17_Witness ==
    /\ ScanOver /\ ipc = "done" /\ spc = "closed"
    /\ filters = EmptyDict
    /\ RunKey \in DOMAIN done_runs
    /\ Cardinality(DOMAIN done_runs) >= 2
    /\ file_contents = Nothing
    /\ yielded # <<>>

\* the pair holds a COMMAND, ERROR or SAME record or a record of a secondary tag
Flagged(p) ==
    \E i \in 1..Len(p.dir_entries) :
        p.dir_entries[i].tag_number
            \in {COMMAND_TAG, ERROR_TAG, SAME_TAG} \cup secondary_tags

\* C18: iter_buffers never yields the Buffer of a pair that holds a COMMAND,
\* ERROR or SAME record or a record of a secondary tag, with or without a
\* filter and whatever follows that record in the buffer.
C18_FlaggedBufferNeverYielded ==
    (ipc = "pull" /\ cur # Nothing /\ Flagged(cur[1]))
        => IterBody(cur[1], filters, secondary_tags).kind # "yield"

\* the Buffer of a pair: no entry of tag 0 and no time dataset is filed under
\* an acquisition type, the two type-indexed dicts go together, and what is
\* filed under a type is what the tag-indexed dicts hold for that entry
TimeFreeTypeIndex(buf) ==
    /\ DOMAIN buf.datasets_by_typ = DOMAIN buf.dir_entries_by_typ
    /\ \A t \in DOMAIN buf.dir_entries_by_typ :
          /\ Len(buf.datasets_by_typ[t]) = Len(buf.dir_entries_by_typ[t])
          /\ \A i \in 1..Len(buf.dir_entries_by_typ[t]) :
                LET e == buf.dir_entries_by_typ[t][i]
                IN  /\ e.tag_number # TIME_TAG
                    /\ e.typ = t
                    /\ buf.datasets_by_typ[t][i]
                          = buf.datasets_by_tag_number[e.tag_number]

\* the time record of the Buffer and its dataset are found by tag number
TimeByTagNumber(buf) ==
    /\ TIME_TAG \in DOMAIN buf.dir_entries_by_tag_number
    /\ buf.dir_entries_by_tag_number[TIME_TAG].tag_number = TIME_TAG
    /\ buf.datasets_by_tag_number[TIME_TAG]
          = UnpackSEATime(TimeRecordBytes, 0)

\* C19: in every Buffer iter_buffers builds, whatever the add_dataset calls
\* that built it, no time record and no time dataset is in the type-indexed
\* dicts, and in every Buffer it yields the time record and its dataset are
\* retrievable by tag number.
C19_TimeNotIndexedByType ==
    /\ \A i \in 1..Len(yielded) :
          TimeFreeTypeIndex(yielded[i]) /\ TimeByTagNumber(yielded[i])
    /\ (ipc \in {"body", "done", "raised"} /\ cur # Nothing)
          => TimeFreeTypeIndex(IterBody(cur[1], filters, secondary_tags).buffer)

\* C19 witness: a yielded Buffer holds its time record by tag number and
\* data records of two acquisition types by type
C19_Witness ==
    /\ yielded # <<>>
    /\ TimeByTagNumber(yielded[1])
    /\ Cardinality(DOMAIN yielded[1].dir_entries_by_typ) >= 2

\* the pair holds the LAST record
HoldsLast(p) ==
    \E i \in 1..Len(p.dir_entries) : p.dir_entries[i].tag_number = LAST_TAG

\* the stream carries a LAST record that lies in the file whole
CarriesLast == shape.form \in {"buffers", "bare"} /\ shape.tail >= 0

\* C20: when the iteration of iter_buffers over a stream that carries a LAST
\* record has come to its end, _file_contents is None: the pair that holds
\* the LAST record was handed to iter_buffers, which released the contents
\* and returned.
C20_LastReleasesContents ==
    (CarriesLast /\ ipc = "done")
        => (file_contents = Nothing /\ cur # Nothing /\ HoldsLast(cur[1]))

\* C21: throughout a scan the cursor and the buffer base never decrease, and
\* the bases of the pairs emitted one after the other strictly increase (so
\* no terminal record is behind two emissions).
C21_EmittedInOrder ==
    /\ [][cursor' >= cursor /\ dir_base' >= dir_base]_vars
    /\ [](\A i \in 1..(Len(raw_out) - 1) : raw_out[i].base < raw_out[i + 1].base)

\* C22: a key of the filter that names no attribute of DirectoryEntry is
\* dropped and the scan goes on without it: once the prelude is over the
\* filter holds valid keys only and the scan has not failed over the key.
C22_InvalidKeyIgnored ==
    spc \notin {"start", "off"}
        => (InvalidKeys(filters) = {} /\ exc # "RuntimeError")

\* C29: the default dicts of the filters parameter stay empty whatever calls
\* were made before, with valid or invalid keys, and a scan called without a
\* filters argument runs unfiltered: the scanner drops no buffer and the
\* decoder starts no Buffer as discarded.
C29_DefaultFilterUnpolluted ==
    /\ default_filters = NoDefaults
    /\ by_default
          => /\ ~NonEmpty(filters)
             /\ spc # "start" => ~drop_buffer
             /\ exc # "RuntimeError"

\* C29 witness: a scan called without a filters argument has come to its end
\* and has yielded a Buffer, after a full filtered scan of the same object
C29_Witness ==
    /\ by_default /\ ScanOver /\ yielded # <<>>
    /\ \E k \in DOMAIN done_runs : k[2] # {}

\* the first 16 bytes of the file are a record that _filetype_check is said
\* to accept
AcceptedHeader ==
    /\ Len(file_bytes) >= SIZE
    /\ LET first == UnpackEntry(file_bytes, 0)
       IN  /\ first.tag_number = TIME_TAG
           /\ first.bytes_per_sample = 18
           /\ first.address = 43605

\* C23: once _filetype_check is over, a file whose first 16 bytes are a
\* record with tag_number 0, bytes_per_sample 18 and address 0xAA55 has gone
\* on to the scan of _init_from_file, and any other file, one shorter than
\* 16 bytes included, was rejected with InvalidSEAFileException without a
\* scan being started.
C23_FiletypeBoundary ==
    ctor # "new" =>
        IF AcceptedHeader
        THEN spc # "off"
        ELSE ctor = "raised" /\ exc = "InvalidSEAFileException" /\ spc = "off"

\* the pair ends with the NEXT or LAST record of its buffer
Terminated(p) ==
    /\ p.dir_entries # <<>>
    /\ p.dir_entries[Len(p.dir_entries)].tag_number \in {NEXT_TAG, LAST_TAG}

\* the records of the file at strides of 16 bytes from the offset base on,
\* up to the first NEXT or LAST record
RECURSIVE RecordsFrom(_, _)
RecordsFrom(contents, k) ==
    IF ~CanReadEntry(contents, k) THEN <<>>
    ELSE LET e == UnpackEntry(contents, k)
         IN  IF e.tag_number \in {NEXT_TAG, LAST_TAG} THEN <<e>>
             ELSE <<e>> \o RecordsFrom(contents, k + SIZE)

\* C24: the record list of every pair that an unfiltered scan emitted for a
\* NEXT- or LAST-terminated buffer is the list of the records of the file
\* from the base of the pair to that terminator, each once and in the order
\* of the stream.
C24_RecordsOncePerBuffer ==
    ~NonEmpty(filters) =>
        \A i \in 1..Len(raw_out) :
            Terminated(raw_out[i]) =>
                raw_out[i].dir_entries = RecordsFrom(file_bytes, raw_out[i].base)

\* s is t with some of its elements left out: the elements of s are found
\* in t from position j on, in the order of s
RECURSIVE SubseqFrom(_, _, _, _)
SubseqFrom(s, i, t, j) ==
    IF i > Len(s) THEN TRUE
    ELSE IF j > Len(t) THEN FALSE
    ELSE IF s[i] = t[j] THEN SubseqFrom(s, i + 1, t, j + 1)
    ELSE SubseqFrom(s, i, t, j + 1)

\* the outcome of the unfiltered scan through _raw_buffers of this object
UnfilteredKey == <<"raw", {}>>

MatchBeforeEnd(p, f) ==
    \E i \in 1..(Len(p.dir_entries) - 1) : MatchingAttrs(p.dir_entries[i], f) # {}

\* C26: under a filter, the decoder yields a Buffer for every NEXT-terminated
\* pair that the scanner emitted for a matching record of the buffer and
\* that holds no COMMAND, ERROR, SAME or secondary record, unless a decode
\* raises; the matching record may be the time record.
C26_DecoderKeepsWhatScannerKeeps ==
    (/\ ipc = "body" /\ cur # Nothing /\ NonEmpty(filters)
     /\ EndsWithNext(cur[1]) /\ ~Flagged(cur[1])
     /\ MatchBeforeEnd(cur[1], filters))
        => IterBody(cur[1], filters, secondary_tags).kind \in {"yield", "raise"}

\* C27: after any calls of add_dataset, among them calls with a tag number
\* or a record the Buffer already holds, every record the type index lists
\* is the record the tag-number index holds for its tag, it is listed once,
\* its dataset stands at the same position of datasets_by_typ, and every
\* record of the tag-number index but the time record is listed under its
\* type.
C27_IndexesConsistent ==
    /\ DOMAIN new_buffer.datasets_by_typ = DOMAIN new_buffer.dir_entries_by_typ
    /\ \A t \in DOMAIN new_buffer.dir_entries_by_typ :
          LET es == new_buffer.dir_entries_by_typ[t]
              ds == new_buffer.datasets_by_typ[t]
          IN  /\ Len(ds) = Len(es)
              /\ \A i \in 1..Len(es) :
                    /\ es[i].tag_number # TIME_TAG
                    /\ new_buffer.dir_entries_by_tag_number[es[i].tag_number] = es[i]
                    /\ new_buffer.datasets_by_tag_number[es[i].tag_number] = ds[i]
                    /\ \A j \in 1..Len(es) : es[j] = es[i] => j = i
    /\ \A k \in DOMAIN new_buffer.dir_entries_by_tag_number :
          LET e == new_buffer.dir_entries_by_tag_number[k]
          IN  k # TIME_TAG =>
                /\ e.typ \in DOMAIN new_buffer.dir_entries_by_typ
                /\ \E i \in 1..Len(new_buffer.dir_entries_by_typ[e.typ]) :
                      new_buffer.dir_entries_by_typ[e.typ][i] = e

\* C28: of two generators of iter_buffers on one SEAFile that the consumer
\* advances in any order, each one that is read to its end has given what
\* the scan with its filter gave when it ran alone on that object, also when
\* the other generator came to the LAST record and released the contents of
\* the file in between.
C28_InterleavedScansIndependent ==
    (/\ other # Nothing /\ ScanOver /\ exc # "RuntimeError"
     /\ RunKey \in DOMAIN done_runs)
        => done_runs[RunKey] = RunOutcome

\* one generator has returned at the LAST record and released the contents
\* while the other, which has yielded a pair, stands inside its loop; the
\* scan of the first ran alone before
C28_Witness ==
    /\ other # Nothing
    /\ ipc = "done" /\ file_contents = Nothing /\ yielded # <<>>
    /\ RunKey \in DOMAIN done_runs
    /\ other[1].spc = "loop" /\ other[1].raw_out # <<>>

\* C30: in every scan of a file that passed _filetype_check the first record
\* matches the signature of the scanner: the cursor does not leave offset 0
\* by a step of one byte, and the first pair emitted has base 0.  (Under
\* SpecOpen no scan starts unless the check has passed.)
C30_AcceptedFileSynchronizesAtZero ==
    (ctor # "new" /\ spc \notin {"off", "start"})
        => /\ Len(walk) >= 3 => walk[3] # <<"cursor", 1>>
           /\ raw_out # <<>> => raw_out[1].base = 0

====
